---- MODULE Spec2Model ----
(***************************************************************************)
(* The three serverless proxy handlers of HealthMax:                       *)
(*   "proxy"            netlify/functions/gemini-proxy.js                  *)
(*   "recommendations"  netlify/functions/gemini-recommendations-proxy.js  *)
(*   "part000"          unnamed/part_000                                   *)
(* One behaviour is one invocation of one handler: the request arrives,    *)
(* the handler validates it and either returns, throws, or issues the      *)
(* outbound fetch and suspends; the fetch settles; the handler parses the  *)
(* reply and produces its response.                                        *)
(* Texts are sequences of characters, one string per character.            *)
(***************************************************************************)
EXTENDS Integers, Sequences, FiniteSets, TLC

VARIABLES variant, event, apiKey, pc, outbound, net, upstream, resp, thrown

vars == <<variant, event, apiKey, pc, outbound, net, upstream, resp, thrown>>

(***************************************************************************)
(* Bounds and program constants                                            *)
(***************************************************************************)
\* longest upstream text, counted in segments of Segments
MaxSegs == 5

\* generationConfig.maxOutputTokens
MaxOutputTokens == 4096

Variants == {"proxy", "recommendations", "part000"}

Methods == {"POST", "GET", "OPTIONS"}

\* process.env.GEMINI_API_KEY: not set, set to the empty string, set
ApiKeys == {"UNSET", "", "secret"}

\* HTTP statuses the upstream answers with
Statuses == {200, 503}

(***************************************************************************)
(* JavaScript strings                                                      *)
(***************************************************************************)
\* the grave accent (backtick) character, U+0060
Backtick == "GRAVE"

jsonStartMarker == <<Backtick, Backtick, Backtick, "j", "s", "o", "n">>

jsonEndMarker == <<Backtick, Backtick, Backtick>>

\* characters String.prototype.trim removes: space, tab, line terminators
WhiteSpace == {" ", "\t", "\n", "\r"}

\* String.prototype.startsWith
StartsWith(s, p) == Len(s) >= Len(p) /\ SubSeq(s, 1, Len(p)) = p

\* String.prototype.endsWith
EndsWith(s, p) == Len(s) >= Len(p) /\ SubSeq(s, Len(s) - Len(p) + 1, Len(s)) = p

\* String.prototype.substring(from, to): 0-based, to exclusive
Substring(s, from, to) == SubSeq(s, from + 1, to)

TrimStartOnly(s) ==
    LET keep == {i \in 1..Len(s) : s[i] \notin WhiteSpace}
    IN  IF keep = {} THEN <<>>
        ELSE SubSeq(s, CHOOSE i \in keep : \A j \in keep : i <= j, Len(s))

\* String.prototype.trim
Trim(s) ==
    LET keep == {i \in 1..Len(s) : s[i] \notin WhiteSpace}
    IN  IF keep = {} THEN <<>>
        ELSE SubSeq(s, CHOOSE i \in keep : \A j \in keep : i <= j,
                       CHOOSE i \in keep : \A j \in keep : i >= j)

\* a string in a boolean context
TruthyStr(s) == s # <<>>

(***************************************************************************)
(* Inputs: upstream texts                                                  *)
(***************************************************************************)
Segments == {jsonStartMarker, jsonEndMarker, <<Backtick>>, <<"\n">>, <<"x">>}

RECURSIVE TextsUpTo(_)
TextsUpTo(n) ==
    IF n = 0 THEN {<<>>}
    ELSE LET shorter == TextsUpTo(n - 1)
         IN  shorter \cup {t \o s : t \in shorter, s \in Segments}

Texts == TextsUpTo(MaxSegs)

(***************************************************************************)
(* Inputs: the inbound event                                               *)
(***************************************************************************)
\* event.body: absent (undefined), null, or a string
Bodies ==
    {[kind |-> "undefined", text |-> ""], [kind |-> "null", text |-> ""]}
    \cup {[kind |-> "string", text |-> t] :
            t \in {"", "{oops", "null", "5", "{}", "{\"prompt\":\"\"}", "{\"prompt\":\"p\"}"}}

Events == [httpMethod : Methods, body : Bodies]

(***************************************************************************)
(* JSON values of the request body                                         *)
(***************************************************************************)
\* a parsed request body: null, a number, or an object that may hold prompt
NullValue == [type |-> "null", hasPrompt |-> FALSE, prompt |-> ""]

NumberValue == [type |-> "number", hasPrompt |-> FALSE, prompt |-> ""]

ObjectValue(hasPrompt, prompt) ==
    [type |-> "object", hasPrompt |-> hasPrompt, prompt |-> prompt]

\* JSON.parse(event.body): the argument is first converted to a string, so
\* undefined becomes the text undefined (a SyntaxError) and null the text null
JSONParse(body) ==
    LET text == CASE body.kind = "undefined" -> "undefined"
                  [] body.kind = "null" -> "null"
                  [] OTHER -> body.text
    IN  CASE text = "null" -> [ok |-> TRUE, value |-> NullValue]
          [] text = "5" -> [ok |-> TRUE, value |-> NumberValue]
          [] text = "{}" -> [ok |-> TRUE, value |-> ObjectValue(FALSE, "")]
          [] text = "{\"prompt\":\"\"}" -> [ok |-> TRUE, value |-> ObjectValue(TRUE, "")]
          [] text = "{\"prompt\":\"p\"}" -> [ok |-> TRUE, value |-> ObjectValue(TRUE, "p")]
          [] OTHER -> [ok |-> FALSE, value |-> NullValue]

\* const { prompt } = requestBody throws a TypeError on null
DestructureThrows(value) == value.type = "null"

\* the prompt read by const { prompt } = requestBody; undefined when absent
PromptOf(value) ==
    IF value.type = "object" /\ value.hasPrompt
    THEN [defined |-> TRUE, text |-> value.prompt]
    ELSE [defined |-> FALSE, text |-> ""]

MethodIsNotGet(method) == method # "GET"

\* event.httpMethod !== 'POST', negated
MethodIsPost(method) == method = "POST"

\* !event.body
BodyFalsy(body) == body.kind \in {"undefined", "null"} \/ body.text = ""

\* !prompt
PromptFalsy(prompt) == ~prompt.defined \/ prompt.text = ""

KeyUndefined(key) == key = "UNSET"

\* !geminiApiKey, !apiKey
KeyFalsy(key) == key \in {"UNSET", ""}

(***************************************************************************)
(* JSON values of the upstream reply                                       *)
(***************************************************************************)
\* result: kind is null or object; the other fields say how far the
\* path candidates[0].content.parts[0].text exists; error is "absent",
\* "noMessage" (an error object without message) or the error's message
Result(kind, depth, text, error) ==
    [kind |-> kind,
     hasCandidates |-> depth >= 1, nCandidates |-> IF depth >= 2 THEN 1 ELSE 0,
     hasContent |-> depth >= 3, hasParts |-> depth >= 4,
     nParts |-> IF depth >= 5 THEN 1 ELSE 0,
     hasText |-> depth >= 6, text |-> text, error |-> error]

NullResult == Result("null", 0, <<>>, "absent")

\* depth 0: no candidates; 1: candidates []; 2: candidates [{}];
\* 3: content {}; 4: parts []; 5: parts [{}]; 6: parts [{text}]
Results ==
    {NullResult}
    \cup {Result("object", 0, <<>>, e) : e \in {"absent", "noMessage", "quota exceeded"}}
    \cup {Result("object", d, <<>>, "absent") : d \in 1..5}
    \cup {Result("object", 6, t, "absent") : t \in Texts}

\* what fetch resolves with: the HTTP status and the body response.json() reads
UpstreamReplies ==
    [status : Statuses, bodyIsJson : {TRUE}, result : Results]
    \cup [status : Statuses, bodyIsJson : {FALSE}, result : {NullResult}]

NoReply == [status |-> 0, bodyIsJson |-> FALSE, result |-> NullResult]

\* response.ok
ResponseOk(reply) == reply.status >= 200 /\ reply.status <= 299

(***************************************************************************)
(* Responses and outbound calls                                            *)
(***************************************************************************)
\* { statusCode, body: JSON.stringify({...}), headers }: success is "true",
\* "false" or "absent"; message and error are "absent" when the body has none
Response(statusCode, success, message, hasResponse, response, hasDetails, details, error) ==
    [statusCode |-> statusCode, contentType |-> "application/json",
     success |-> success, message |-> message,
     hasResponse |-> hasResponse, response |-> response,
     hasDetails |-> hasDetails, details |-> details, error |-> error]

NoResp == Response(0, "absent", "absent", FALSE, <<>>, FALSE, NullResult, "absent")

\* a body { message } or { success: false, message }
ErrorResponse(statusCode, success, message) ==
    Response(statusCode, success, message, FALSE, <<>>, FALSE, NullResult, "absent")

\* the fetch call: URL with the key as query parameter, options, payload
Call(key, role, prompt) ==
    [url |-> "https://generativelanguage.googleapis.com/v1beta/models/gemini-2.5-flash-preview-05-20:generateContent",
     key |-> key, method |-> "POST", contentType |-> "application/json",
     role |-> role, promptDefined |-> prompt.defined, promptText |-> prompt.text,
     responseMimeType |-> "application/json", maxOutputTokens |-> MaxOutputTokens]

NoCall == Call("", "absent", [defined |-> FALSE, text |-> ""])

\* what one synchronous stretch of a handler ends in: a returned response,
\* an exception that leaves the handler, or the fetch it awaits
Return(r) == [kind |-> "return", resp |-> r, call |-> NoCall, err |-> "absent"]

Throw(err) == [kind |-> "throw", resp |-> NoResp, call |-> NoCall, err |-> err]

Fetch(call) == [kind |-> "call", resp |-> NoResp, call |-> call, err |-> "absent"]

(***************************************************************************)
(* netlify/functions/gemini-proxy.js                                       *)
(***************************************************************************)
\* catch (error): 500 with the error's message
ProxyCatch(err) ==
    Response(500, "absent", "Internal server error.", FALSE, <<>>, FALSE, NullResult, err)

\* the handler up to the fetch it awaits
ProxyEntry(ev, key) ==
    IF ~MethodIsPost(ev.httpMethod)
    THEN Return(ErrorResponse(405, "absent", "Only POST requests are allowed."))
    ELSE IF BodyFalsy(ev.body)
    THEN Return(ErrorResponse(400, "absent", "Request body is missing."))
    ELSE LET parsed == JSONParse(ev.body)
         IN  IF ~parsed.ok THEN Return(ProxyCatch("SyntaxError"))
             ELSE IF DestructureThrows(parsed.value) THEN Return(ProxyCatch("TypeError"))
             ELSE IF KeyFalsy(key)
             THEN Return(ErrorResponse(500, "absent", "Server configuration error: API key missing."))
             ELSE Fetch(Call(key, "user", PromptOf(parsed.value)))

ShapeOkNeedsTwoCandidates(result) ==
    /\ result.hasCandidates /\ result.nCandidates > 1
    /\ result.hasContent /\ result.hasParts /\ result.nParts > 0
    /\ result.hasText /\ TruthyStr(result.text)

\* result.candidates && ... && result.candidates[0].content.parts[0].text
ProxyShapeOk(result) ==
    /\ result.hasCandidates /\ result.nCandidates > 0
    /\ result.hasContent /\ result.hasParts /\ result.nParts > 0
    /\ result.hasText /\ TruthyStr(result.text)

FenceStripBothOrNone(text) ==
    IF StartsWith(text, jsonStartMarker) /\ EndsWith(text, jsonEndMarker)
          /\ Len(text) >= Len(jsonStartMarker) + Len(jsonEndMarker)
    THEN Trim(Substring(text, Len(jsonStartMarker), Len(text) - Len(jsonEndMarker)))
    ELSE Trim(text)

\* strip the markdown code block wrappers, then trim
FenceStrip(text) ==
    LET afterStart == IF StartsWith(text, jsonStartMarker)
                      THEN Substring(text, Len(jsonStartMarker), Len(text))
                      ELSE text
        afterEnd == IF EndsWith(afterStart, jsonEndMarker)
                    THEN Substring(afterStart, 0, Len(afterStart) - Len(jsonEndMarker))
                    ELSE afterStart
    IN  Trim(afterEnd)

\* the handler from response.json() on
ProxyContinue(reply) ==
    IF ~reply.bodyIsJson THEN ProxyCatch("invalid json response body")
    ELSE IF reply.result.kind = "null" THEN ProxyCatch("TypeError")
    ELSE IF ProxyShapeOk(reply.result)
    THEN Response(200, "true", "absent", TRUE, FenceStrip(reply.result.text),
                  FALSE, NullResult, "absent")
    ELSE Response(500, "absent", "Failed to get a valid response from Gemini API.",
                  FALSE, <<>>, TRUE, reply.result, "absent")

(***************************************************************************)
(* netlify/functions/gemini-recommendations-proxy.js                       *)
(***************************************************************************)
\* catch (error): 500 with the error's message
RecommendationsCatch(err) ==
    Response(500, "absent", "Internal server error.", FALSE, <<>>, FALSE, NullResult, err)

\* the handler up to the fetch it awaits
RecommendationsEntry(ev, key) ==
    IF ~MethodIsPost(ev.httpMethod)
    THEN Return(ErrorResponse(405, "absent", "Only POST requests are allowed."))
    ELSE IF BodyFalsy(ev.body)
    THEN Return(ErrorResponse(400, "absent", "Request body is missing."))
    ELSE LET parsed == JSONParse(ev.body)
         IN  IF ~parsed.ok THEN Return(RecommendationsCatch("SyntaxError"))
             ELSE IF DestructureThrows(parsed.value)
             THEN Return(RecommendationsCatch("TypeError"))
             ELSE IF KeyFalsy(key)
             THEN Return(ErrorResponse(500, "absent", "Server configuration error: API key missing."))
             ELSE Fetch(Call(key, "user", PromptOf(parsed.value)))

\* result.candidates && ... && result.candidates[0].content.parts[0].text
RecommendationsShapeOk(result) ==
    /\ result.hasCandidates /\ result.nCandidates > 0
    /\ result.hasContent /\ result.hasParts /\ result.nParts > 0
    /\ result.hasText /\ TruthyStr(result.text)

\* the handler from response.json() on
RecommendationsContinue(reply) ==
    IF ~reply.bodyIsJson THEN RecommendationsCatch("invalid json response body")
    ELSE IF reply.result.kind = "null" THEN RecommendationsCatch("TypeError")
    ELSE IF RecommendationsShapeOk(reply.result)
    THEN Response(200, "true", "absent", TRUE, reply.result.text,
                  FALSE, NullResult, "absent")
    ELSE Response(500, "absent", "Failed to get a valid response from Gemini API.",
                  FALSE, <<>>, TRUE, reply.result, "absent")

(***************************************************************************)
(* unnamed/part_000                                                        *)
(***************************************************************************)
\* error.message || 'Internal Server Error during API call.'
Part000Catch(err) ==
    ErrorResponse(500, "false",
                  IF err # "" THEN err ELSE "Internal Server Error during API call.")

\* the handler up to the fetch it awaits; the destructuring of the parsed
\* body is outside every try block
Part000Entry(ev, key) ==
    IF ~MethodIsPost(ev.httpMethod)
    THEN Return(ErrorResponse(405, "false", "Method Not Allowed. Only POST requests are supported."))
    ELSE LET parsed == JSONParse(ev.body)
         IN  IF ~parsed.ok
             THEN Return(ErrorResponse(400, "false", "Invalid JSON in request body."))
             ELSE IF DestructureThrows(parsed.value) THEN Throw("TypeError")
             ELSE IF PromptFalsy(PromptOf(parsed.value))
             THEN Return(ErrorResponse(400, "false", "Missing \"prompt\" in request body."))
             ELSE IF KeyFalsy(key)
             THEN Return(ErrorResponse(500, "false", "Server configuration error: Gemini API Key is not set."))
             ELSE Fetch(Call(key, "absent", PromptOf(parsed.value)))

\* response.ok && result.candidates && ... && parts.length > 0: the text of
\* the part is not tested
Part000ShapeOk(reply) ==
    /\ ResponseOk(reply)
    /\ reply.result.hasCandidates /\ reply.result.nCandidates > 0
    /\ reply.result.hasContent /\ reply.result.hasParts /\ reply.result.nParts > 0

StatusAlways500(reply) == 500

\* response.status || 500
StatusOr500(reply) == IF reply.status # 0 THEN reply.status ELSE 500

\* result.error?.message || 'Unexpected response from Gemini API.'
Part000Message(result) ==
    IF result.error \in {"absent", "noMessage", ""}
    THEN "Unexpected response from Gemini API."
    ELSE result.error

\* the handler from response.json() on; result.candidates is read only when
\* response.ok, result.error always in the else branch
Part000Continue(reply) ==
    IF ~reply.bodyIsJson THEN Part000Catch("invalid json response body")
    ELSE IF ResponseOk(reply) /\ reply.result.kind = "null" THEN Part000Catch("TypeError")
    ELSE IF Part000ShapeOk(reply)
    THEN Response(200, "true", "absent", reply.result.hasText, reply.result.text,
                  FALSE, NullResult, "absent")
    ELSE IF reply.result.kind = "null" THEN Part000Catch("TypeError")
    ELSE ErrorResponse(StatusOr500(reply), "false", Part000Message(reply.result))

(***************************************************************************)
(* The invocation                                                          *)
(***************************************************************************)
IssueFetchTwice(calls, call) == Append(Append(calls, call), call)

\* await fetch(url, options): one call goes out
IssueFetch(calls, call) == Append(calls, call)

Init ==
    /\ variant = "none"
    /\ event = [httpMethod |-> "GET", body |-> [kind |-> "undefined", text |-> ""]]
    /\ apiKey \in ApiKeys
    /\ pc = "idle"
    /\ outbound = <<>>
    /\ net = "none"
    /\ upstream = NoReply
    /\ resp = NoResp
    /\ thrown = "absent"

\* the platform routes a request to one of the three functions
Receive ==
    /\ pc = "idle"
    /\ variant' \in Variants
    /\ event' \in Events
    /\ pc' = "start"
    /\ UNCHANGED <<apiKey, outbound, net, upstream, resp, thrown>>

\* the end of the handler's first stretch
Settle(outcome) ==
    /\ pc' = CASE outcome.kind = "return" -> "done"
               [] outcome.kind = "throw" -> "threw"
               [] OTHER -> "awaitFetch"
    /\ resp' = outcome.resp
    /\ thrown' = outcome.err
    /\ outbound' = IF outcome.kind = "call" THEN IssueFetch(outbound, outcome.call)
                   ELSE outbound
    /\ net' = IF outcome.kind = "call" THEN "pending" ELSE net
    /\ UNCHANGED <<variant, event, apiKey, upstream>>

ProxyHandler ==
    /\ pc = "start" /\ variant = "proxy"
    /\ Settle(ProxyEntry(event, apiKey))

RecommendationsHandler ==
    /\ pc = "start" /\ variant = "recommendations"
    /\ Settle(RecommendationsEntry(event, apiKey))

Part000Handler ==
    /\ pc = "start" /\ variant = "part000"
    /\ Settle(Part000Entry(event, apiKey))

\* the upstream answers: fetch resolves whatever the HTTP status
FetchResolve ==
    /\ pc = "awaitFetch"
    /\ upstream' \in UpstreamReplies
    /\ net' = "resolved"
    /\ pc' = "awaitJson"
    /\ UNCHANGED <<variant, event, apiKey, outbound, resp, thrown>>

\* the network fails: the await throws into the handler's catch block
FetchReject ==
    /\ pc = "awaitFetch"
    /\ net' = "rejected"
    /\ resp' = CASE variant = "proxy" -> ProxyCatch("request failed")
                 [] variant = "recommendations" -> RecommendationsCatch("request failed")
                 [] OTHER -> Part000Catch("request failed")
    /\ pc' = "done"
    /\ UNCHANGED <<variant, event, apiKey, outbound, upstream, thrown>>

ProxyResume ==
    /\ pc = "awaitJson" /\ variant = "proxy"
    /\ resp' = ProxyContinue(upstream)
    /\ pc' = "done"
    /\ UNCHANGED <<variant, event, apiKey, outbound, net, upstream, thrown>>

RecommendationsResume ==
    /\ pc = "awaitJson" /\ variant = "recommendations"
    /\ resp' = RecommendationsContinue(upstream)
    /\ pc' = "done"
    /\ UNCHANGED <<variant, event, apiKey, outbound, net, upstream, thrown>>

Part000Resume ==
    /\ pc = "awaitJson" /\ variant = "part000"
    /\ resp' = Part000Continue(upstream)
    /\ pc' = "done"
    /\ UNCHANGED <<variant, event, apiKey, outbound, net, upstream, thrown>>

Next ==
    \/ Receive
    \/ ProxyHandler
    \/ RecommendationsHandler
    \/ Part000Handler
    \/ FetchResolve
    \/ FetchReject
    \/ ProxyResume
    \/ RecommendationsResume
    \/ Part000Resume

Spec == Init /\ [][Next]_vars

(***************************************************************************)
(* Vocabulary of the properties, stated on the raw request and reply       *)
(***************************************************************************)
Terminal == pc \in {"done", "threw"}

Entered == pc \notin {"idle", "start"}

IsPost == event.httpMethod = "POST"

\* the body is a string holding valid JSON
BodyIsJsonText ==
    /\ event.body.kind = "string"
    /\ event.body.text \in {"null", "5", "{}", "{\"prompt\":\"\"}", "{\"prompt\":\"p\"}"}

\* the body is absent, null, empty, or a string that is not JSON
BodyMissingOrInvalid == ~BodyIsJsonText

HasNonEmptyPrompt == event.body.kind = "string" /\ event.body.text = "{\"prompt\":\"p\"}"

KeyConfigured == apiKey = "secret"

Netlify == variant \in {"proxy", "recommendations"}

\* the request passes the validation of the handler it was routed to
PassesValidation ==
    /\ IsPost /\ KeyConfigured
    /\ IF Netlify
       THEN BodyIsJsonText /\ event.body.text # "null"
       ELSE HasNonEmptyPrompt

\* the upstream answered with JSON
GotJson == net = "resolved" /\ upstream.bodyIsJson

\* the reply has a text part at candidates[0].content.parts[0].text
HasTextPart == GotJson /\ upstream.result.kind = "object" /\ upstream.result.hasText

\* C1: a request whose method is not POST ends in a 405 response, and no
\* outbound call is made, whatever the body and the key
C1_NonPostIs405 ==
    (Entered /\ ~IsPost) =>
        /\ pc = "done"
        /\ resp.statusCode = 405
        /\ resp.message # "absent"
        /\ outbound = <<>>
        /\ net = "none"

C1_Witness ==
    /\ pc = "done" /\ event.httpMethod = "OPTIONS"
    /\ HasNonEmptyPrompt /\ KeyConfigured
    /\ resp.statusCode = 405

\* C2: a POST request whose body is missing or is not valid JSON ends in a
\* 400 response, and no outbound call is made
C2_BadBodyIs400 ==
    (Entered /\ IsPost /\ BodyMissingOrInvalid) =>
        /\ pc = "done"
        /\ resp.statusCode = 400
        /\ outbound = <<>>

\* C3 as stated: a POST request with a parseable JSON body and no API key
\* ends in a 500 response, whatever its prompt
C3_NoKeyIs500 ==
    (Entered /\ IsPost /\ BodyIsJsonText /\ ~KeyConfigured) =>
        (pc = "done" /\ resp.statusCode = 500)

\* C3 as amended: with no API key, the two netlify handlers answer 500
\* whatever the prompt; part_000 answers 500 only when the prompt is
\* non-empty, 400 when the parsed body is not null and has no non-empty
\* prompt, and throws when the parsed body is null; no call is made
C3_NoKeyAmended ==
    (Entered /\ IsPost /\ BodyIsJsonText /\ ~KeyConfigured) =>
        /\ outbound = <<>>
        /\ Netlify => (pc = "done" /\ resp.statusCode = 500)
        /\ (variant = "part000" /\ HasNonEmptyPrompt) =>
               (pc = "done" /\ resp.statusCode = 500)
        /\ (variant = "part000" /\ ~HasNonEmptyPrompt /\ event.body.text # "null") =>
               (pc = "done" /\ resp.statusCode = 400)
        /\ (variant = "part000" /\ event.body.text = "null") => pc = "threw"

C3_Witness ==
    /\ pc = "done" /\ variant = "part000" /\ IsPost
    /\ event.body.text = "{}" /\ apiKey = "UNSET"
    /\ resp.statusCode = 400

\* C4: every invocation ends by returning a response; no exception leaves
\* the handler
C4_NeverThrows ==
    /\ pc # "threw"
    /\ pc = "done" => (resp.statusCode # 0 /\ resp.contentType = "application/json")

(***************************************************************************)
(* Fence-stripping, stated character by character                          *)
(***************************************************************************)
RECURSIVE DropLeadingSpace(_)
DropLeadingSpace(s) ==
    IF s # <<>> /\ Head(s) \in WhiteSpace THEN DropLeadingSpace(Tail(s)) ELSE s

RECURSIVE DropTrailingSpace(_)
DropTrailingSpace(s) ==
    IF s # <<>> /\ s[Len(s)] \in WhiteSpace
    THEN DropTrailingSpace([i \in 1..(Len(s) - 1) |-> s[i]])
    ELSE s

Trimmed(s) == DropTrailingSpace(DropLeadingSpace(s))

HasPrefix(s, p) == \E rest \in {SubSeq(s, k, Len(s)) : k \in 1..(Len(s) + 1)} : s = p \o rest

HasSuffix(s, p) == \E rest \in {SubSeq(s, 1, k) : k \in 0..Len(s)} : s = rest \o p

\* remove the start marker if it leads, then the end marker if it ends what
\* is left, then the surrounding whitespace
ReferenceStrip(t) ==
    LET a == IF HasPrefix(t, jsonStartMarker)
             THEN [i \in 1..(Len(t) - Len(jsonStartMarker)) |-> t[i + Len(jsonStartMarker)]]
             ELSE t
        b == IF HasSuffix(a, jsonEndMarker)
             THEN [i \in 1..(Len(a) - Len(jsonEndMarker)) |-> a[i]]
             ELSE a
    IN  Trimmed(b)

\* number of backticks in a text
Backticks(s) == Cardinality({i \in 1..Len(s) : s[i] = Backtick})

AllSpace(s) == \A i \in 1..Len(s) : s[i] \in WhiteSpace

NoOuterSpace(s) == s = <<>> \/ (s[1] \notin WhiteSpace /\ s[Len(s)] \notin WhiteSpace)

\* the handler relayed the upstream text T as a success
Relayed == pc = "done" /\ resp.statusCode = 200 /\ HasTextPart

T == upstream.result.text

\* a well-formed exchange: POST, non-empty prompt, key configured, upstream
\* success status, a non-empty text at candidates[0].content.parts[0].text
WellFormedExchange ==
    /\ pc = "done" /\ IsPost /\ HasNonEmptyPrompt /\ KeyConfigured
    /\ HasTextPart /\ upstream.status = 200 /\ T # <<>>

\* C5 as stated: a well-formed exchange ends in 200 {success:true,
\* response:R}, and R is the text unchanged in every variant that sends
\* responseMimeType = "application/json"
C5_StructuredRelaysUnchanged ==
    WellFormedExchange =>
        /\ resp.statusCode = 200 /\ resp.success = "true" /\ resp.hasResponse
        /\ outbound[1].responseMimeType = "application/json" => resp.response = T

\* C5 as amended: a well-formed exchange ends in 200 {success:true,
\* response:R}; every variant sends responseMimeType = "application/json";
\* R is the text unchanged in gemini-recommendations-proxy.js and part_000,
\* and the fence-stripped, trimmed text in gemini-proxy.js
C5_RelaysPerVariant ==
    WellFormedExchange =>
        /\ resp.statusCode = 200 /\ resp.success = "true" /\ resp.hasResponse
        /\ Len(outbound) = 1
        /\ outbound[1].responseMimeType = "application/json"
        /\ outbound[1].maxOutputTokens = 4096
        /\ outbound[1].promptText = "p"
        /\ variant \in {"recommendations", "part000"} => resp.response = T
        /\ variant = "proxy" => resp.response = ReferenceStrip(T)

C5_Witness ==
    /\ WellFormedExchange /\ variant = "proxy"
    /\ T = jsonStartMarker \o <<"\n", "x", "\n">> \o jsonEndMarker
    /\ resp.statusCode = 200 /\ resp.response = <<"x">>
    /\ outbound[1].responseMimeType = "application/json"

\* C6: a 200 response always has the body {success:true, response:<string>}
\* and is returned only for a reply with a text part
C6_200IsSuccessWithText ==
    (pc = "done" /\ resp.statusCode = 200) =>
        /\ resp.success = "true"
        /\ resp.hasResponse
        /\ HasTextPart

\* the reply lacks a non-empty candidates list
LacksCandidates == GotJson /\ upstream.result.nCandidates = 0

\* the handler answered a JSON reply with something else than a success
Rejected == pc = "done" /\ GotJson /\ resp.success # "true"

C8_ExactlyOneCall ==
    Terminal => (Len(outbound) = 1 /\ net \in {"resolved", "rejected"})

\* C8 as amended: an invocation makes at most one outbound call: exactly
\* one when the request passes validation, none otherwise; it produces no
\* response while the call is pending, and a failure, a non-success status
\* or a malformed reply does not repeat the call
C8_AtMostOneCall ==
    /\ Len(outbound) <= 1
    /\ (net = "pending") <=> (pc = "awaitFetch")
    /\ net = "pending" => resp = NoResp
    /\ (Terminal /\ PassesValidation) =>
           /\ Len(outbound) = 1
           /\ net \in {"resolved", "rejected"}
           /\ outbound[1].method = "POST" /\ outbound[1].key = apiKey
    /\ (Terminal /\ ~PassesValidation) => (outbound = <<>> /\ net = "none")

C8_Witness ==
    /\ pc = "done" /\ PassesValidation /\ Len(outbound) = 1
    /\ net = "rejected" /\ resp.statusCode = 500

\* C9: the response of gemini-proxy.js is the upstream text with a leading
\* start marker removed, then a trailing end marker removed, then trimmed;
\* a text with neither marker at its ends keeps all its backticks; a text
\* with only one of the markers loses only that one; a fenced text
\* marker-space-X-space-marker yields exactly X
C9_FenceStripIsReference ==
    (Relayed /\ variant = "proxy") =>
        /\ resp.response = ReferenceStrip(T)
        /\ NoOuterSpace(resp.response)
        /\ (~HasPrefix(T, jsonStartMarker) /\ ~HasSuffix(T, jsonEndMarker)) =>
               Backticks(resp.response) = Backticks(T)
        /\ (HasPrefix(T, jsonStartMarker) /\ ~HasSuffix(T, jsonEndMarker)) =>
               resp.response = Trimmed(SubSeq(T, Len(jsonStartMarker) + 1, Len(T)))
        /\ (~HasPrefix(T, jsonStartMarker) /\ HasSuffix(T, jsonEndMarker)) =>
               resp.response = Trimmed(SubSeq(T, 1, Len(T) - Len(jsonEndMarker)))
        /\ \A i \in 1..(Len(T) + 1) : \A j \in 0..Len(T) :
               LET w1 == SubSeq(T, Len(jsonStartMarker) + 1, i - 1)
                   x == SubSeq(T, i, j)
                   w2 == SubSeq(T, j + 1, Len(T) - Len(jsonEndMarker))
               IN  (/\ i > Len(jsonStartMarker) /\ j >= i - 1
                    /\ j <= Len(T) - Len(jsonEndMarker)
                    /\ T = jsonStartMarker \o w1 \o x \o w2 \o jsonEndMarker
                    /\ AllSpace(w1) /\ AllSpace(w2) /\ NoOuterSpace(x))
                   => resp.response = x

C9_Witness ==
    /\ Relayed /\ variant = "proxy"
    /\ T = jsonStartMarker \o <<"\n", "x">> \o jsonEndMarker \o <<"x">>
    /\ resp.response = <<"x">> \o jsonEndMarker \o <<"x">>

\* C10 as stated: a text that neither starts with the start marker nor
\* ends with the end marker is relayed unchanged by gemini-proxy.js
C10_NoMarkersUnchanged ==
    (Relayed /\ variant = "proxy"
        /\ ~HasPrefix(T, jsonStartMarker) /\ ~HasSuffix(T, jsonEndMarker)) =>
        resp.response = T

\* C10 as amended: a text that neither starts with the start marker nor
\* ends with the end marker is relayed by gemini-proxy.js with its leading
\* and trailing whitespace removed, hence unchanged exactly when it has none
C10_NoMarkersTrimmed ==
    (Relayed /\ variant = "proxy"
        /\ ~HasPrefix(T, jsonStartMarker) /\ ~HasSuffix(T, jsonEndMarker)) =>
        /\ resp.response = Trimmed(T)
        /\ NoOuterSpace(T) <=> (resp.response = T)

C10_Witness ==
    /\ Relayed /\ variant = "proxy"
    /\ T = <<"\n", "x", Backtick, "\n">>
    /\ resp.response = <<"x", Backtick>>

====
